---- MODULE Spec2Model ----
(***************************************************************************)
(* A model of src/main.py: the search / filter / export / transcript       *)
(* handlers of YouTubeAnalyzer and the module-level functions they call.   *)
(*                                                                         *)
(* Text values are TLA+ strings.  The string operations the code uses      *)
(* (str.split, the `in` substring test, int(), str.lower, strptime) are    *)
(* modelled on a finite vocabulary of strings by tables that give, for     *)
(* each string of the vocabulary, what Python computes for it.             *)
(*                                                                         *)
(* Instants (datetime) are whole hours since 0001-01-01T00:00; timedelta   *)
(* and datetime keep the ranges that make Python raise OverflowError.      *)
(*                                                                         *)
(* A Python call that may raise is an operator that returns a record       *)
(* [ok |-> TRUE, val |-> v] or [ok |-> FALSE, err |-> "<exception type>"]. *)
(***************************************************************************)
EXTENDS Integers, Sequences, FiniteSets, TLC

VARIABLES
    youtube,               \* module global: TRUE iff the API client was built
    has_video_results,     \* hasattr(self, 'video_results')
    video_results,         \* self.video_results
    use_api,               \* self.use_api ("unset" before the first search)
    produced_by,           \* history: the backend that returned video_results
    shown,                 \* video ids of the result widgets in results_layout
    now,                   \* the wall clock read by datetime.now()
    files,                 \* the file system: path -> content or Absent
    transcript_directory,  \* self.transcript_directory
    dialog,                \* the last QMessageBox shown
    trace,                 \* the calls made by the handler that ran last
    last,                  \* history: the inputs and outcome of that handler
    call                   \* a direct call of a module-level function

vars == << youtube, has_video_results, video_results, use_api, produced_by,
           shown, now, files, transcript_directory, dialog, trace, last, call >>

app_vars == << youtube, has_video_results, video_results, use_api, produced_by,
               shown, files, transcript_directory, dialog, trace, last >>

----------------------------------------------------------------------------
(* Bounds of the model *)

\* the longest result list a backend returns
MaxResults == 2

\* how many hours the clock advances during a run
MaxTicks == 1

----------------------------------------------------------------------------
(* Exceptions *)

Ok(v) == [ok |-> TRUE, val |-> v]

\* raise e, of which str(e) is the type's name
Raise(e) == [ok |-> FALSE, err |-> e, msg |-> e]

\* raise e(msg)
RaiseMsg(e, msg) == [ok |-> FALSE, err |-> e, msg |-> msg]

----------------------------------------------------------------------------
(* datetime: instants as hours since 0001-01-01T00:00 *)

HoursPerDay == 24

\* datetime.max.toordinal(): 9999-12-31
MaxOrdinal == 3652059

\* timedelta's limit on the magnitude of its days
MaxDeltaDays == 999999999

MinInstant == 0

MaxInstant == MaxOrdinal * HoursPerDay - 1

IsLeap(y) == (y % 4 = 0) /\ ((y % 100 # 0) \/ (y % 400 = 0))

DaysInMonth(y, m) ==
    CASE m \in {1, 3, 5, 7, 8, 10, 12} -> 31
      [] m \in {4, 6, 9, 11} -> 30
      [] OTHER -> IF IsLeap(y) THEN 29 ELSE 28

DaysBeforeYear(y) ==
    (y - 1) * 365 + (y - 1) \div 4 - (y - 1) \div 100 + (y - 1) \div 400

RECURSIVE DaysBeforeMonth(_, _)
DaysBeforeMonth(y, m) ==
    IF m = 1 THEN 0 ELSE DaysBeforeMonth(y, m - 1) + DaysInMonth(y, m - 1)

\* date(y, m, d).toordinal()
ToOrdinal(y, m, d) == DaysBeforeYear(y) + DaysBeforeMonth(y, m) + d

\* datetime(y, m, d, h) as an instant
Instant(y, m, d, h) == (ToOrdinal(y, m, d) - 1) * HoursPerDay + h

\* timedelta(days=n): OverflowError beyond its limit
TimedeltaDays(n) ==
    IF n > MaxDeltaDays \/ n < -MaxDeltaDays
    THEN Raise("OverflowError")
    ELSE Ok([days |-> n, hours |-> 0])

\* timedelta(hours=n)
TimedeltaHours(n) ==
    IF n \div HoursPerDay > MaxDeltaDays \/ n \div HoursPerDay < -MaxDeltaDays - 1
    THEN Raise("OverflowError")
    ELSE Ok([days |-> n \div HoursPerDay, hours |-> n % HoursPerDay])

\* datetime - timedelta: OverflowError when the result leaves year 1..9999
DatetimeSub(t, delta) ==
    IF delta.days > MaxOrdinal \/ delta.days < -MaxOrdinal
    THEN Raise("OverflowError")
    ELSE LET r == t - (delta.days * HoursPerDay + delta.hours)
         IN  IF r < MinInstant \/ r > MaxInstant
             THEN Raise("OverflowError")
             ELSE Ok(r)

----------------------------------------------------------------------------
(* The vocabulary of publishedTime strings and what the string operations  *)
(* of parse_relative_time compute for them.                                *)

PublishedTimes ==
    { "", "Streamed 2 days ago", "garbage text", "5", "abc hours ago",
      "3 minutes ago", "0 hours ago", "3 hours ago", "-1 hours ago",
      "1 Days ago", "2 weeks ago", "1 month ago", "1 year ago",
      "3000 years ago", "-9000 years ago", "3000000 years ago" }

\* time_str.split()
Split(s) ==
    CASE s = "" -> << >>
      [] s = "Streamed 2 days ago" -> << "Streamed", "2", "days", "ago" >>
      [] s = "garbage text" -> << "garbage", "text" >>
      [] s = "5" -> << "5" >>
      [] s = "abc hours ago" -> << "abc", "hours", "ago" >>
      [] s = "3 minutes ago" -> << "3", "minutes", "ago" >>
      [] s = "0 hours ago" -> << "0", "hours", "ago" >>
      [] s = "3 hours ago" -> << "3", "hours", "ago" >>
      [] s = "-1 hours ago" -> << "-1", "hours", "ago" >>
      [] s = "1 Days ago" -> << "1", "Days", "ago" >>
      [] s = "2 weeks ago" -> << "2", "weeks", "ago" >>
      [] s = "1 month ago" -> << "1", "month", "ago" >>
      [] s = "1 year ago" -> << "1", "year", "ago" >>
      [] s = "3000 years ago" -> << "3000", "years", "ago" >>
      [] s = "-9000 years ago" -> << "-9000", "years", "ago" >>
      [] s = "3000000 years ago" -> << "3000000", "years", "ago" >>

\* sub in s
Contains(s, sub) ==
    CASE sub = "Streamed" -> s \in {"Streamed", "Streamed 2 days ago"}
      [] sub = "hour" -> s \in {"hours"}
      [] sub = "day" -> s \in {"days"}
      [] sub = "week" -> s \in {"weeks"}
      [] sub = "month" -> s \in {"month"}
      [] sub = "year" -> s \in {"year", "years"}
      [] OTHER -> FALSE

\* s.lower()
Lower(s) == IF s = "Days" THEN "days" ELSE s

\* int(s): ValueError unless s is an integer literal
ParseInt(s) ==
    CASE s = "0" -> Ok(0)
      [] s = "1" -> Ok(1)
      [] s = "2" -> Ok(2)
      [] s = "3" -> Ok(3)
      [] s = "5" -> Ok(5)
      [] s = "-1" -> Ok(-1)
      [] s = "3000" -> Ok(3000)
      [] s = "-9000" -> Ok(-9000)
      [] s = "3000000" -> Ok(3000000)
      [] OTHER -> Raise("ValueError")

\* current_time - timedelta(days=n)
SubDays(current_time, n) ==
    LET d == TimedeltaDays(n)
    IN  IF d.ok THEN DatetimeSub(current_time, d.val) ELSE d

\* current_time - timedelta(hours=n)
SubHours(current_time, n) ==
    LET d == TimedeltaHours(n)
    IN  IF d.ok THEN DatetimeSub(current_time, d.val) ELSE d

\* An exception other than ValueError leaves the try of parse_relative_time.
CatchValueError(r, current_time) ==
    IF ~r.ok /\ r.err = "ValueError" THEN Ok(current_time) ELSE r

\* parse_relative_time(time_str), with datetime.now() = clock
parse_relative_time(time_str, clock) ==
    IF time_str = "" \/ Contains(time_str, "Streamed")
    THEN Ok(clock)
    ELSE LET current_time == clock
             time_parts == Split(time_str)
         IN  IF Len(time_parts) < 2
             THEN Ok(current_time)
             ELSE LET value == ParseInt(time_parts[1])
                      unit == Lower(time_parts[2])
                      body ==
                        IF ~value.ok THEN value
                        ELSE IF Contains(unit, "hour")
                             THEN SubHours(current_time, value.val)
                        ELSE IF Contains(unit, "day")
                             THEN SubDays(current_time, value.val)
                        ELSE IF Contains(unit, "week")
                             THEN SubDays(current_time, value.val * 7)
                        ELSE IF Contains(unit, "month")
                             THEN SubDays(current_time, value.val * 30)
                        ELSE IF Contains(unit, "year")
                             THEN SubDays(current_time, value.val * 365)
                        ELSE Ok(current_time)
                  IN  CatchValueError(body, current_time)

----------------------------------------------------------------------------
(* dict access *)

EmptyDict == [k \in {} |-> ""]

\* d[k]: KeyError when the key is missing
Index(d, k) == IF k \in DOMAIN d THEN Ok(d[k]) ELSE Raise("KeyError")

\* d.get(k, default)
Get(d, k, default) == IF k \in DOMAIN d THEN d[k] ELSE default

----------------------------------------------------------------------------
(* The vocabulary of publishedAt strings and datetime.strptime on them *)

PublishedAts ==
    { "2024-06-10T00:00:00Z", "2024-06-14T00:00:00Z", "2024-06-15T22:00:00Z",
      "2024-06-15T23:00:00Z", "2024-06-16T00:00:00Z", "2024-02-30T00:00:00Z",
      "yesterday" }

\* the numbers the format '%Y-%m-%dT%H:%M:%SZ' reads, << >> when the
\* string does not match the format
StrptimeFields(s) ==
    CASE s = "2024-06-10T00:00:00Z" -> << 2024, 6, 10, 0 >>
      [] s = "2024-06-14T00:00:00Z" -> << 2024, 6, 14, 0 >>
      [] s = "2024-06-15T22:00:00Z" -> << 2024, 6, 15, 22 >>
      [] s = "2024-06-15T23:00:00Z" -> << 2024, 6, 15, 23 >>
      [] s = "2024-06-16T00:00:00Z" -> << 2024, 6, 16, 0 >>
      [] s = "2024-02-30T00:00:00Z" -> << 2024, 2, 30, 0 >>
      [] OTHER -> << >>

\* datetime.strptime(s, '%Y-%m-%dT%H:%M:%SZ')
Strptime(s) ==
    LET f == StrptimeFields(s)
    IN  IF f = << >> THEN Raise("ValueError")
        ELSE IF f[1] < 1 \/ f[1] > 9999 \/ f[2] < 1 \/ f[2] > 12
                \/ f[3] < 1 \/ f[3] > DaysInMonth(f[1], f[2])
                \/ f[4] < 0 \/ f[4] >= HoursPerDay
             THEN Raise("ValueError")
             ELSE Ok(Instant(f[1], f[2], f[3], f[4]))

----------------------------------------------------------------------------
(* filter_videos_by_date_range *)

\* publish_date of one video as the loop body computes it
PublishDate(video, api, clock) ==
    IF api
    THEN LET snippet == Index(video, "snippet")
         IN  IF ~snippet.ok THEN snippet
             ELSE LET publishedAt == Index(snippet.val, "publishedAt")
                  IN  IF ~publishedAt.ok THEN publishedAt
                      ELSE Strptime(publishedAt.val)
    ELSE parse_relative_time(Get(video, "publishedTime", ""), clock)

\* InWindow with the comparison at the start of the window strict
InWindowAfterStart(publish_date, start_date, end_date) ==
    start_date < publish_date /\ publish_date <= end_date

\* start_date <= publish_date <= end_date
InWindow(publish_date, start_date, end_date) ==
    start_date <= publish_date /\ publish_date <= end_date

\* the loop of filter_videos_by_date_range from video i on; clocks[i] is
\* what datetime.now() returns while video i is handled
RECURSIVE FilterLoop(_, _, _, _, _, _, _)
FilterLoop(videos, start_date, end_date, api, clocks, i, filtered_videos) ==
    IF i > Len(videos) THEN Ok(filtered_videos)
    ELSE LET publish_date == PublishDate(videos[i], api, clocks[i])
         IN  IF ~publish_date.ok THEN publish_date
             ELSE FilterLoop(videos, start_date, end_date, api, clocks, i + 1,
                             IF InWindow(publish_date.val, start_date, end_date)
                             THEN Append(filtered_videos, videos[i])
                             ELSE filtered_videos)

filter_videos_by_date_range(videos, start_date, end_date, api, clocks) ==
    FilterLoop(videos, start_date, end_date, api, clocks, 1, << >>)

----------------------------------------------------------------------------
(* The field mapping of export_to_csv and of display_results *)

\* the second of two results, unless the first raised
Then(a, b) == IF a.ok THEN b ELSE a

\* the row export_to_csv builds for one video
ExportRow(video, api) ==
    IF api
    THEN LET snippet == Index(video, "snippet")
             title == IF snippet.ok THEN Index(snippet.val, "title") ELSE snippet
             channel == IF snippet.ok THEN Index(snippet.val, "channelTitle") ELSE snippet
             statistics == Index(video, "statistics")
             published == IF snippet.ok THEN Index(snippet.val, "publishedAt") ELSE snippet
             id == Index(video, "id")
             row == Then(title, Then(channel, Then(statistics, Then(published, id))))
         IN  IF ~row.ok THEN row
             ELSE Ok(<< title.val, channel.val,
                        Get(statistics.val, "viewCount", "N/A"),
                        published.val, id.val >>)
    ELSE Ok(<< Get(video, "title", "N/A"),
               Get(Get(video, "channel", EmptyDict), "name", "N/A"),
               Get(Get(video, "viewCount", EmptyDict), "text", "N/A"),
               Get(video, "publishedTime", "N/A"),
               Get(video, "id", "N/A") >>)

\* title, channel, views, published, video_id as display_results reads them
DisplayFields(video, api) ==
    IF api
    THEN LET snippet == Index(video, "snippet")
             title == IF snippet.ok THEN Index(snippet.val, "title") ELSE snippet
             channel == IF snippet.ok THEN Index(snippet.val, "channelTitle") ELSE snippet
             statistics == Index(video, "statistics")
             published == IF snippet.ok THEN Index(snippet.val, "publishedAt") ELSE snippet
             video_id == Index(video, "id")
             fields == Then(title, Then(channel, Then(statistics, Then(published, video_id))))
         IN  IF ~fields.ok THEN fields
             ELSE Ok(<< title.val, channel.val,
                        Get(statistics.val, "viewCount", "N/A"),
                        published.val, video_id.val >>)
    ELSE Ok(<< Get(video, "title", "N/A"),
               Get(Get(video, "channel", EmptyDict), "name", "N/A"),
               Get(Get(video, "viewCount", EmptyDict), "text", "N/A"),
               Get(video, "publishedTime", "N/A"),
               Get(video, "id", "N/A") >>)

----------------------------------------------------------------------------
(* What the two search backends can return *)

\* items of get_video_details: one complete, one without statistics block
ApiVideos ==
    { [id |-> "a1",
       snippet |-> [title |-> "Cats", channelTitle |-> "Ch1",
                    publishedAt |-> "2024-06-15T22:00:00Z"],
       statistics |-> [viewCount |-> "100"]],
      [id |-> "a2",
       snippet |-> [title |-> "Dogs", channelTitle |-> "Ch2",
                    publishedAt |-> "2024-06-14T00:00:00Z"]] }

\* results of VideosSearch: one complete, one with only an id
ScrapedVideos ==
    { [id |-> "s1", title |-> "Cats", channel |-> [name |-> "Ch1"],
       viewCount |-> [text |-> "5 views"], publishedTime |-> "3 hours ago"],
      [id |-> "s2"] }

\* the lists of at most MaxResults elements of S
SeqsUpTo(S) == UNION { [1..n -> S] : n \in 0..MaxResults }

\* what a backend can return: such a list without a video twice
ResultLists(S) ==
    { r \in SeqsUpTo(S) : \A i, j \in 1..Len(r) : r[i] = r[j] => i = j }

\* the start of the model's clock: 2024-06-15T22:00
Now0 == Instant(2024, 6, 15, 22)

\* what the two QDateEdit widgets are set to: << start, end >> as ordinals
Windows ==
    { << ToOrdinal(2024, 6, 14), ToOrdinal(2024, 6, 15) >>,
      << ToOrdinal(2024, 6, 14), ToOrdinal(2024, 6, 14) >> }

\* datetime.combine(date, datetime.min.time())
StartOfDay(ordinal) == (ordinal - 1) * HoursPerDay

\* datetime.combine(date, datetime.max.time()): the last instant of the day
EndOfDay(ordinal) == (ordinal - 1) * HoursPerDay + (HoursPerDay - 1)

\* the readings of datetime.now() during one call: n readings, none earlier
\* than the one before, the first not before t
Readings(t, n) ==
    { c \in [1..n -> t..(Now0 + MaxTicks)] :
        \A i \in 1..n : c[i] >= (IF i = 1 THEN t ELSE c[i - 1]) }

\* the clock after the readings c
After(t, c) == IF Len(c) = 0 THEN t ELSE c[Len(c)]

----------------------------------------------------------------------------
(* The file system *)

Absent == [exists |-> FALSE, data |-> << >>]

File(data) == [exists |-> TRUE, data |-> data]

\* the file QFileDialog.getSaveFileName names
CsvPath == << "out.csv" >>

Directories == { "transcripts", "elsewhere" }

\* os.path.join(transcript_directory, f'{video_id}_transcript.txt')
TranscriptPath(directory, video_id) == << directory, video_id, "_transcript.txt" >>

\* the videos the transcript provider has a transcript for
Captioned == { "s1" }

Paths ==
    {CsvPath} \cup { TranscriptPath(d, v) : d \in Directories, v \in Captioned }

\* YouTubeTranscriptApi.get_transcript(video_id), when there is one
Transcript(video_id) ==
    << [start |-> 0, text |-> "hello"], [start |-> 150, text |-> video_id] >>

\* f"{entry['start']:.2f}" of a start given in hundredths of a second
FormatStart(start) ==
    CASE start = 0 -> "0.00"
      [] start = 150 -> "1.50"

\* "\n".join(f"{entry['start']:.2f} - {entry['text']}" for entry in transcript)
TranscriptText(transcript) ==
    [i \in 1..Len(transcript) |->
        << FormatStart(transcript[i].start), " - ", transcript[i].text >>]

----------------------------------------------------------------------------
(* export_to_csv *)

Header == << "Title", "Channel", "View Count", "Publish Date", "Video ID" >>

\* The loop of export_to_csv from video i on, with `written` in the file.
\* failing_write is the number of the writerow call the file system fails
\* (0: none; 1 is the header's).  The result is what the file holds when
\* the with block is left, and how it is left.
RECURSIVE ExportLoop(_, _, _, _, _)
ExportLoop(videos, api, failing_write, i, written) ==
    IF i > Len(videos) THEN [data |-> written, result |-> Ok("done")]
    ELSE LET row == ExportRow(videos[i], api)
         IN  IF ~row.ok THEN [data |-> written, result |-> row]
             ELSE IF failing_write = i + 1
                  THEN [data |-> written, result |-> Raise("OSError")]
                  ELSE ExportLoop(videos, api, failing_write, i + 1,
                                  Append(written, row.val))

\* export_to_csv(videos, filename, use_api): the file afterwards, and the
\* result.  open_fails: open(filename, 'w') raises.
export_to_csv(videos, before, api, open_fails, failing_write) ==
    IF open_fails THEN [file |-> before, result |-> Raise("OSError")]
    ELSE IF failing_write = 1
         THEN [file |-> File(<< >>), result |-> Raise("OSError")]
         ELSE LET r == ExportLoop(videos, api, failing_write, 1, << Header >>)
              IN  [file |-> File(r.data), result |-> r.result]

----------------------------------------------------------------------------
(* display_results *)

\* The loop of display_results from video i on: the ids of the widgets
\* added, and how the loop is left.
RECURSIVE DisplayLoop(_, _, _, _)
DisplayLoop(videos, api, i, widgets) ==
    IF i > Len(videos) THEN [widgets |-> widgets, result |-> Ok("done")]
    ELSE LET fields == DisplayFields(videos[i], api)
         IN  IF ~fields.ok THEN [widgets |-> widgets, result |-> fields]
             ELSE DisplayLoop(videos, api, i + 1, Append(widgets, fields.val[5]))

\* display_results(videos): the previous widgets are removed first
display_results(videos, api) == DisplayLoop(videos, api, 1, << >>)

----------------------------------------------------------------------------
(* The search backends *)

\* search_videos_with_api, given what request.execute() does
search_videos_with_api(response) == response

\* the items of a search response that get_video_details is asked about
SearchItems(details) ==
    [i \in 1..Len(details) |-> [id |-> [videoId |-> details[i].id]]]

\* [item['id']['videoId'] for item in search_results]
VideoIdsOf(search_results) ==
    [i \in 1..Len(search_results) |-> search_results[i].id.videoId]

\* get_video_details, given what request.execute() does
get_video_details(video_ids, response) == response

\* search_videos_without_api, given what VideosSearch(...).result() does:
\* every exception raised in the try, its own included, becomes []
search_videos_without_api(videos_search) ==
    LET body == IF ~videos_search.ok THEN videos_search
                ELSE IF videos_search.val = << >>
                     THEN RaiseMsg("ValueError", "No results found")
                     ELSE videos_search
    IN  [raised |-> IF body.ok THEN << >> ELSE << body.err >>,
         val |-> IF body.ok THEN body.val ELSE << >>]

----------------------------------------------------------------------------
(* search_and_display_videos *)

\* the branch taken at `if self.use_api and youtube`
TakesApiBranch(checked, client) == checked /\ client

\* The authenticated branch: the filtered videos or the exception, and the
\* calls made.  search and details are what the two requests do.
ApiBranch(search, details, start_date, end_date, checked) ==
    LET search_results == search_videos_with_api(search)
    IN  IF ~search_results.ok
        THEN [result |-> search_results,
              calls |-> << "search_videos_with_api" >>]
        ELSE LET video_details ==
                     get_video_details(VideoIdsOf(search_results.val), details)
             IN  IF ~video_details.ok
                 THEN [result |-> video_details,
                       calls |-> << "search_videos_with_api", "get_video_details" >>]
                 ELSE [result |-> filter_videos_by_date_range(
                                      video_details.val, start_date, end_date, checked,
                                      [i \in 1..Len(video_details.val) |-> 0]),
                       calls |-> << "search_videos_with_api", "get_video_details",
                                    "filter_videos_by_date_range" >>]

\* ScrapeBranch without the handler's own `if not search_results: raise`
ScrapeBranchUnchecked(videos_search, start_date, end_date, checked, clocks) ==
    [result |-> filter_videos_by_date_range(
                    search_videos_without_api(videos_search).val,
                    start_date, end_date, checked, clocks),
     calls |-> << "search_videos_without_api", "filter_videos_by_date_range" >>]

\* The other branch.  videos_search is what VideosSearch(...).result() does.
ScrapeBranch(videos_search, start_date, end_date, checked, clocks) ==
    LET search_results == search_videos_without_api(videos_search).val
    IN  IF search_results = << >>
        THEN [result |-> RaiseMsg("ValueError", "No results found"),
              calls |-> << "search_videos_without_api" >>]
        ELSE [result |-> filter_videos_by_date_range(
                             search_results, start_date, end_date, checked, clocks),
              calls |-> << "search_videos_without_api",
                           "filter_videos_by_date_range" >>]

NoDialog == [kind |-> "none", title |-> "", text |-> ""]

Information(title, text) == [kind |-> "information", title |-> title, text |-> text]

Warning(title, text) == [kind |-> "warning", title |-> title, text |-> text]

\* What search_and_display_videos does with the outcome of its branch:
\* lines 215-223.
SearchOutcome(checked, backend, returned, branch) ==
    LET filtered_videos == branch.result
    IN  /\ use_api' = checked
        /\ IF ~filtered_videos.ok
           THEN /\ dialog' = Warning("Error", filtered_videos.msg)
                /\ trace' = branch.calls
                /\ last' = [op |-> "search", checked |-> checked, backend |-> backend,
                            returned |-> returned, filtered |-> << >>,
                            outcome |-> "error"]
                /\ UNCHANGED << has_video_results, video_results, produced_by, shown >>
           ELSE IF filtered_videos.val = << >>
           THEN /\ dialog' = Information("No Results", "No results found.")
                /\ trace' = branch.calls
                /\ last' = [op |-> "search", checked |-> checked, backend |-> backend,
                            returned |-> returned, filtered |-> << >>,
                            outcome |-> "no_results"]
                /\ UNCHANGED << has_video_results, video_results, produced_by, shown >>
           ELSE LET d == display_results(filtered_videos.val, checked)
                IN  /\ video_results' = filtered_videos.val
                    /\ has_video_results' = TRUE
                    /\ produced_by' = backend
                    /\ shown' = d.widgets
                    /\ dialog' = IF d.result.ok THEN NoDialog
                                 ELSE Warning("Error", d.result.msg)
                    /\ trace' = Append(branch.calls, "display_results")
                    /\ last' = [op |-> "search", checked |-> checked,
                                backend |-> backend, returned |-> returned,
                                filtered |-> filtered_videos.val,
                                outcome |-> IF d.result.ok THEN "displayed"
                                            ELSE "error"]

\* how a backend's answer is recorded in `last`
Returned(answer) ==
    IF ~answer.ok THEN "raise" ELSE IF answer.val = << >> THEN "empty" ELSE "items"

\* A search that takes the authenticated branch.  answer: the request that
\* fails, or the videos the API knows for the query.
SearchWithApi ==
    \E checked \in BOOLEAN :
        /\ TakesApiBranch(checked, youtube)
        /\ \E window \in Windows,
              answer \in { [fails |-> "search", found |-> << >>],
                           [fails |-> "details", found |-> << >>] }
                         \cup { [fails |-> "none", found |-> v] :
                                v \in ResultLists(ApiVideos) } :
            LET search == IF answer.fails = "search" THEN Raise("HttpError")
                          ELSE Ok(SearchItems(answer.found))
                details == IF answer.fails = "details" THEN Raise("HttpError")
                           ELSE Ok(answer.found)
            IN  SearchOutcome(checked, "api",
                              Returned(IF answer.fails = "none" THEN details
                                       ELSE Raise("HttpError")),
                              ApiBranch(search, details, StartOfDay(window[1]),
                                        EndOfDay(window[2]), checked))
        /\ UNCHANGED << youtube, now, files, transcript_directory, call >>

\* A search that takes the other branch.  videos_search: what
\* VideosSearch(...).result() does; clock: the reading of datetime.now()
\* during the call (a call is short: all its readings are the same hour).
SearchWithoutApi ==
    \E checked \in BOOLEAN :
        /\ ~TakesApiBranch(checked, youtube)
        /\ \E window \in Windows,
              videos_search \in {Raise("ConnectionError")}
                                \cup { Ok(v) : v \in ResultLists(ScrapedVideos) },
              clock \in now..(Now0 + MaxTicks) :
            /\ (checked \/ ~videos_search.ok \/ videos_search.val = << >>)
                  => clock = now
            /\ SearchOutcome(checked, "scrape", Returned(videos_search),
                   ScrapeBranch(videos_search, StartOfDay(window[1]),
                                EndOfDay(window[2]), checked,
                                [i \in 1..MaxResults |-> clock]))
            /\ now' = clock
        /\ UNCHANGED << youtube, files, transcript_directory, call >>

search_and_display_videos == SearchWithApi \/ SearchWithoutApi


----------------------------------------------------------------------------
(* export_results *)

NotSearch(op, outcome) ==
    [op |-> op, checked |-> FALSE, backend |-> "none", returned |-> "none",
     filtered |-> << >>, outcome |-> outcome]

export_results ==
    /\ IF ~has_video_results \/ video_results = << >>
       THEN /\ dialog' = Warning("No Results", "No results to export.")
            /\ trace' = << >>
            /\ last' = NotSearch("export", "nothing")
            /\ UNCHANGED files
       ELSE \E file_name \in {<< >>, CsvPath} :
            IF file_name = << >>
            THEN /\ dialog' = NoDialog
                 /\ trace' = << "getSaveFileName" >>
                 /\ last' = NotSearch("export", "cancelled")
                 /\ UNCHANGED files
            ELSE \E open_fails \in BOOLEAN,
                    failing_write \in 0..(Len(video_results) + 1) :
                 LET r == export_to_csv(video_results, files[file_name], use_api,
                                        open_fails, failing_write)
                 IN  /\ files' = [files EXCEPT ![file_name] = r.file]
                     /\ trace' = << "getSaveFileName", "export_to_csv" >>
                     /\ dialog' = IF r.result.ok
                                  THEN Information("Export Successful", "Exported")
                                  ELSE NoDialog
                     /\ last' = NotSearch("export",
                                          IF r.result.ok THEN "exported" ELSE "raised")
    /\ UNCHANGED << youtube, has_video_results, video_results, use_api,
                    produced_by, shown, now, transcript_directory, call >>

----------------------------------------------------------------------------
(* show_transcript *)

\* ShowTranscript with the file opened before the provider is asked
ShowTranscriptOpenFirst(provider, before, open_fails, write_fails) ==
    IF open_fails
    THEN [file |-> before,
          dialog |-> Warning("Transcription Error", "OSError"),
          calls |-> << "open" >>]
    ELSE IF ~provider.ok
    THEN [file |-> File(<< >>),
          dialog |-> Warning("Transcription Error", provider.msg),
          calls |-> << "open", "get_transcript" >>]
    ELSE IF write_fails
    THEN [file |-> File(<< >>),
          dialog |-> Warning("Transcription Error", "OSError"),
          calls |-> << "open", "get_transcript", "write" >>]
    ELSE [file |-> File(TranscriptText(provider.val)),
          dialog |-> Information("Transcript Saved", "Transcript saved"),
          calls |-> << "open", "get_transcript", "write" >>]

\* The try block of show_transcript up to the write of the file: the file
\* afterwards, the dialog shown and the calls made.  provider: what
\* get_transcript does; before: the file at file_path.
ShowTranscript(provider, before, open_fails, write_fails) ==
    IF ~provider.ok
    THEN [file |-> before,
          dialog |-> Warning("Transcription Error", provider.msg),
          calls |-> << "get_transcript" >>]
    ELSE LET transcript_text == TranscriptText(provider.val)
         IN  IF open_fails
             THEN [file |-> before,
                   dialog |-> Warning("Transcription Error", "OSError"),
                   calls |-> << "get_transcript", "open" >>]
             ELSE IF write_fails
             THEN [file |-> File(<< >>),
                   dialog |-> Warning("Transcription Error", "OSError"),
                   calls |-> << "get_transcript", "open", "write" >>]
             ELSE [file |-> File(transcript_text),
                   dialog |-> Information("Transcript Saved", "Transcript saved"),
                   calls |-> << "get_transcript", "open", "write" >>]

\* the Transcribe button of a displayed result
show_transcript ==
    \E i \in 1..Len(shown), available \in BOOLEAN,
       open_fails \in BOOLEAN, write_fails \in BOOLEAN :
        LET video_id == shown[i]
            provider == IF available /\ video_id \in Captioned
                        THEN Ok(Transcript(video_id))
                        ELSE Raise("TranscriptsDisabled")
            file_path == TranscriptPath(transcript_directory, video_id)
            before == IF file_path \in Paths THEN files[file_path] ELSE Absent
            r == ShowTranscript(provider, before, open_fails, write_fails)
        IN  /\ files' = IF file_path \in Paths
                        THEN [files EXCEPT ![file_path] = r.file]
                        ELSE files
            /\ dialog' = r.dialog
            /\ trace' = r.calls
            /\ last' = NotSearch("transcript",
                                 IF ~provider.ok THEN "unavailable"
                                 ELSE IF r.dialog.kind = "warning" THEN "io_error"
                                 ELSE "saved")
            /\ UNCHANGED << youtube, has_video_results, video_results, use_api,
                            produced_by, shown, now, transcript_directory, call >>

----------------------------------------------------------------------------
(* change_transcript_directory *)

change_transcript_directory ==
    \E new_directory \in Directories \cup {""} :
        /\ IF new_directory # ""
           THEN /\ transcript_directory' = new_directory
                /\ dialog' = Information("Directory Changed", new_directory)
                /\ last' = NotSearch("directory", "changed")
           ELSE /\ dialog' = NoDialog
                /\ last' = NotSearch("directory", "cancelled")
                /\ UNCHANGED transcript_directory
        /\ trace' = << "getExistingDirectory" >>
        /\ UNCHANGED << youtube, has_video_results, video_results, use_api,
                        produced_by, shown, now, files, call >>

----------------------------------------------------------------------------
(* The application *)

NoCall == [fn |-> "none"]

\* YouTubeAnalyzer.__init__: no video_results and no use_api attribute yet
\* (use_api is not read before search_and_display_videos sets it)
Init ==
    /\ youtube \in BOOLEAN
    /\ has_video_results = FALSE
    /\ video_results = << >>
    /\ use_api = FALSE
    /\ produced_by = "none"
    /\ shown = << >>
    /\ now = Now0
    /\ files = [p \in Paths |-> Absent]
    /\ transcript_directory = "transcripts"
    /\ dialog = NoDialog
    /\ trace = << >>
    /\ last = NotSearch("init", "none")
    /\ call = NoCall

Next ==
    \/ search_and_display_videos
    \/ export_results
    \/ show_transcript
    \/ change_transcript_directory

Spec == Init /\ [][Next]_vars

----------------------------------------------------------------------------
(* Direct calls of the module-level functions, on inputs drawn from        *)
(* bounded sets: one call, and for the filter a second call on the result  *)
(* of the first                                                            *)

\* the instants a caller passes as start_date and end_date
Bounds == { Instant(2024, 6, 14, 0), Now0 - 3, Now0, Now0 + 1 }

\* videos of the authenticated shape, by what their publishedAt is
ApiInputs ==
    { [id |-> "a1", snippet |-> [publishedAt |-> "2024-06-15T22:00:00Z"]],
      [id |-> "a2", snippet |-> [publishedAt |-> "2024-06-14T00:00:00Z"]],
      [id |-> "a3", snippet |-> [publishedAt |-> "2024-06-10T00:00:00Z"]],
      [id |-> "a4", snippet |-> [publishedAt |-> "2024-02-30T00:00:00Z"]] }

\* videos of the scraped shape, by what their publishedTime is
ScrapedInputs ==
    { [id |-> "s1", publishedTime |-> "3 hours ago"],
      [id |-> "s2"],
      [id |-> "s3", publishedTime |-> "1 Days ago"],
      [id |-> "s4", publishedTime |-> "garbage text"],
      [id |-> "s5", publishedTime |-> "3000 years ago"] }

\* a call of parse_relative_time
ParseCall ==
    /\ call = NoCall
    /\ \E time_str \in PublishedTimes, clock \in now..(Now0 + MaxTicks) :
        /\ call' = [fn |-> "parse_relative_time", time_str |-> time_str,
                    clock |-> clock, ret |-> parse_relative_time(time_str, clock)]
        /\ now' = clock
        /\ UNCHANGED app_vars

\* a call of filter_videos_by_date_range
FilterCall ==
    /\ call = NoCall
    /\ \E api \in BOOLEAN, start_date \in Bounds, end_date \in Bounds :
       \E videos \in SeqsUpTo(IF api THEN ApiInputs ELSE ScrapedInputs) :
       \E clocks \in Readings(now, Len(videos)) :
        /\ call' = [fn |-> "filter_videos_by_date_range", again |-> FALSE,
                    videos |-> videos, start_date |-> start_date,
                    end_date |-> end_date, use_api |-> api, clocks |-> clocks,
                    ret |-> filter_videos_by_date_range(videos, start_date,
                                                        end_date, api, clocks)]
        /\ now' = After(now, clocks)
        /\ UNCHANGED app_vars

\* a call of filter_videos_by_date_range on what the call before returned,
\* with the same window
FilterAgainCall ==
    /\ call.fn = "filter_videos_by_date_range"
    /\ call.ret.ok
    /\ \E clocks \in Readings(now, Len(call.ret.val)) :
        /\ call' = [call EXCEPT
                      !.again = TRUE, !.videos = call.ret.val, !.clocks = clocks,
                      !.ret = filter_videos_by_date_range(
                                  call.ret.val, call.start_date, call.end_date,
                                  call.use_api, clocks)]
        /\ now' = After(now, clocks)
    /\ UNCHANGED app_vars

\* d without the keys outside keep
Restrict(d, keep) == [k \in DOMAIN d \cap keep |-> d[k]]

FullApiVideo ==
    [id |-> "a1",
     snippet |-> [title |-> "Cats", channelTitle |-> "Ch1",
                  publishedAt |-> "2024-06-15T22:00:00Z"],
     statistics |-> [viewCount |-> "100"]]

FullScrapedVideo ==
    [id |-> "s1", title |-> "Cats", channel |-> [name |-> "Ch1"],
     viewCount |-> [text |-> "5 views"], publishedTime |-> "3 hours ago"]

\* v with its dicts, where it has them, cut down to the keys in keep
RestrictInner(v, keep) ==
    [k \in DOMAIN v |->
        IF k \in {"snippet", "statistics", "channel", "viewCount"}
        THEN Restrict(v[k], keep) ELSE v[k]]

\* a raw result with any of its fields missing
RawResults(api) ==
    LET full == IF api THEN FullApiVideo ELSE FullScrapedVideo
        inner == IF api THEN {"title", "channelTitle", "publishedAt", "viewCount"}
                 ELSE {"name", "text"}
    IN  { RestrictInner(Restrict(full, outer), keep) :
            outer \in SUBSET DOMAIN full, keep \in SUBSET inner }

\* the field mapping of export_to_csv and display_results on one raw result
NormalizeCall ==
    /\ call = NoCall
    /\ \E api \in BOOLEAN :
       \E video \in RawResults(api) :
        /\ call' = [fn |-> "normalize", video |-> video, use_api |-> api,
                    row |-> ExportRow(video, api),
                    fields |-> DisplayFields(video, api)]
        /\ UNCHANGED << app_vars, now >>

CallNext ==
    \/ ParseCall
    \/ FilterCall
    \/ FilterAgainCall
    \/ NormalizeCall

CallSpec == Init /\ [][CallNext]_vars

----------------------------------------------------------------------------
(* The claims *)

BackendCalls ==
    { "search_videos_with_api", "get_video_details", "search_videos_without_api" }

\* C1: whenever the session holds a record set, the use_api stored with it
\* is the variant of the backend that produced the record set.
C1_SessionVariantMatches ==
    has_video_results => (use_api <=> (produced_by = "api"))

\* C2: a search with 'use API' selected and no API client fails with an
\* error before any backend is called: neither search backend is invoked.
C2_NoBackendWithoutCredential ==
    (last.op = "search" /\ last.checked /\ ~youtube)
        => /\ dialog.kind = "warning"
           /\ \A i \in 1..Len(trace) : trace[i] \notin BackendCalls

\* C3: when the scraping backend returns zero results, the search raises
\* its empty-result error, the handler reports "No results found", and
\* filter_videos_by_date_range is not invoked for that search.
C3_EmptyScrapeSkipsFilter ==
    (last.op = "search" /\ last.backend = "scrape" /\ last.returned = "empty")
        => /\ last.outcome = "error"
           /\ dialog = Warning("Error", "No results found")
           /\ \A i \in 1..Len(trace) : trace[i] # "filter_videos_by_date_range"

\* C3's case: a search whose scraping backend returned no results
C3_Witness ==
    /\ last.op = "search" /\ last.backend = "scrape" /\ last.returned = "empty"
    /\ trace = << "search_videos_without_api" >>
    /\ dialog.text = "No results found"

\* the inputs for which C4 says the result is exactly the current time
FailOpenInputs ==
    { "", "Streamed 2 days ago", "garbage text", "abc hours ago", "3 minutes ago" }

\* C4: parse_relative_time never raises, whatever the string, and returns
\* exactly the current time for an empty input, an input containing
\* 'Streamed', an unparseable integer or an unrecognized unit.
C4_ParseTotalFailOpen ==
    call.fn = "parse_relative_time"
        => /\ call.ret.ok
           /\ call.time_str \in FailOpenInputs => call.ret.val = call.clock

\* C5: when filter_videos_by_date_range returns, it returns exactly the
\* input records whose resolved publish time t satisfies start <= t <= end,
\* in their input order, for both backend variants.
C5_FilterKeepsWindowInOrder ==
    (call.fn = "filter_videos_by_date_range" /\ call.ret.ok)
        => LET resolved(i) ==
                   PublishDate(call.videos[i], call.use_api, call.clocks[i]).val
               keep == { i \in 1..Len(call.videos) :
                           /\ call.start_date <= resolved(i)
                           /\ resolved(i) <= call.end_date }
               r == call.ret.val
           IN  /\ Len(r) = Cardinality(keep)
               /\ \E f \in [1..Len(r) -> keep] :
                    /\ \A a, b \in 1..Len(r) : a < b => f[a] < f[b]
                    /\ \A k \in 1..Len(r) : r[k] = call.videos[f[k]]

\* C5's case: a record published exactly at end, then one published exactly
\* at start, both retained in that order
C5_Witness ==
    /\ call.fn = "filter_videos_by_date_range" /\ call.ret.ok
    /\ call.start_date < call.end_date
    /\ Len(call.videos) = 2
    /\ PublishDate(call.videos[1], call.use_api, call.clocks[1]).val = call.end_date
    /\ PublishDate(call.videos[2], call.use_api, call.clocks[2]).val = call.start_date
    /\ call.ret.val = call.videos

\* C6: filtering a set the filter has returned, with the same window,
\* returns that set unchanged, for both backend variants.
C6_FilterIdempotent ==
    (call.fn = "filter_videos_by_date_range" /\ call.again)
        => call.ret = Ok(call.videos)

\* C7: the field mapping never raises on a raw result with fields missing,
\* under either variant, and every missing field becomes "N/A".
C7_NormalizeNeverRaises ==
    call.fn = "normalize"
        => /\ call.row.ok
           /\ call.fields.ok
           /\ LET v == call.video
                  inner(k) == IF k \in DOMAIN v THEN DOMAIN v[k] ELSE {}
                  missing ==
                    IF call.use_api
                    THEN << "title" \notin inner("snippet"),
                            "channelTitle" \notin inner("snippet"),
                            "viewCount" \notin inner("statistics"),
                            FALSE,
                            "id" \notin DOMAIN v >>
                    ELSE << "title" \notin DOMAIN v,
                            "name" \notin inner("channel"),
                            "text" \notin inner("viewCount"),
                            "publishedTime" \notin DOMAIN v,
                            "id" \notin DOMAIN v >>
              IN  \A c \in 1..5 :
                    missing[c] => /\ call.row.val[c] = "N/A"
                                  /\ call.fields.val[c] = "N/A"

\* C8: an export or a transcript write that fails after it has started
\* leaves every file with the content it had before.
C8_FailedWriteLeavesFiles ==
    [][ ( \/ (last'.op = "export" /\ last'.outcome = "raised")
          \/ (last'.op = "transcript" /\ last'.outcome = "io_error") )
        => files' = files ]_vars

\* C9: after a search that completes without an error, the record set the
\* session holds is the filtered result of that search.
C9_SearchReplacesSession ==
    (last.op = "search" /\ last.outcome \in {"displayed", "no_results"})
        => video_results = last.filtered

\* C10: when the provider has no transcript, show_transcript reports it in
\* a warning and leaves every file as it was, and in no run of
\* show_transcript is the file opened before the provider was asked.
C10_UnavailableTouchesNoFile ==
    [][ last'.op = "transcript"
        => /\ last'.outcome = "unavailable"
              => /\ files' = files
                 /\ dialog'.kind = "warning"
                 /\ dialog'.title = "Transcription Error"
           /\ \A i \in 1..Len(trace') :
                trace'[i] = "open" => \E j \in 1..(i - 1) : trace'[j] = "get_transcript"
      ]_vars

\* C10's case: the provider has no transcript for a video whose transcript
\* file exists from an earlier fetch
C10_Witness ==
    /\ last.op = "transcript" /\ last.outcome = "unavailable"
    /\ trace = << "get_transcript" >>
    /\ \E p \in Paths \ {CsvPath} : files[p].exists /\ files[p].data # << >>

====
